---------------------------- MODULE Spec2Model ----------------------------
(***************************************************************************)
(* Model of graphql_server/__init__.py: run_http_query (parameter          *)
(* extraction, method restriction, per-item execution with optional        *)
(* containment of HttpQueryError) followed by encode_execution_results.    *)
(*                                                                         *)
(* Python values are records [tag, s, m]: None, a str (s) or a dict (m, a  *)
(* set of <<key, value>> pairs).  A key missing from a dict and a key      *)
(* bound to None are the same thing to dict.get, so both are PyNone.       *)
(***************************************************************************)
EXTENDS Integers, Sequences, FiniteSets, TLC

\* Longest batch (list input) explored.
MaxBatch == 3

(***************************************************************************)
(* Python values                                                           *)
(***************************************************************************)
PyNone == [tag |-> "None", s |-> "", m |-> {}]

PyStr(x) == [tag |-> "str", s |-> x, m |-> {}]

PyDict(pairs) == [tag |-> "dict", s |-> "", m |-> pairs]

\* bool(v) for None, str and dict
Truthy(v) == \/ (v.tag = "str" /\ v.s # "")
             \/ (v.tag = "dict" /\ v.m # {})

\* Python's `a or b`
PyOr(a, b) == IF Truthy(a) THEN a ELSE b

\* d[key] for a dict value holding key
PyLookup(d, key) == (CHOOSE p \in d.m : p[1] = key)[2]

PyHas(d, key) == d.tag = "dict" /\ \E p \in d.m : p[1] = key

(***************************************************************************)
(* HttpQueryError and the other things a call can end with                 *)
(***************************************************************************)
NoHeaders == "None"

HttpQueryError(status, message, headers) ==
    [type |-> "HttpQueryError", status_code |-> status, message |-> message,
     headers |-> headers]

NoError == [type |-> "None", status_code |-> 0, message |-> "", headers |-> NoHeaders]

\* What Python raises on reading a local name that was never assigned.
NameError(name) ==
    [type |-> "NameError", status_code |-> 0,
     message |-> "'" \o name \o "' referenced before assignment",
     headers |-> NoHeaders]

(***************************************************************************)
(* Query texts, variables texts and the engine collaborator                *)
(***************************************************************************)
Q_OK == "query helloWho($who: String){ test(who: $who) }"

Q_BAD == "bad syntax {"

Q_MUT == "mutation { writeTest { test } }"

Q_SUB == "subscription { onTest }"

Q_INVALID == "{ nope }"

Q_MUT_INVALID == "mutation { nope }"

Q_MULTI == "query A { test } mutation B { writeTest { test } } subscription S { onTest }"

V_YOU == "{\"who\":\"You\"}"

V_EMPTY == "{}"

V_BROKEN == "who:You"

Op(kind, name, field) == [operation |-> kind, name |-> name, field |-> field]

Document(ops, valid) == [ok |-> TRUE, error |-> "", definitions |-> ops, valid |-> valid]

SyntaxError(msg) == [ok |-> FALSE, error |-> msg, definitions |-> <<>>, valid |-> FALSE]

\* graphql.parse on the texts of the model: a Document, or the message of the
\* exception it raises.  A query that is not a str makes parse raise a TypeError.
Parse(query) ==
    IF query.tag # "str" THEN SyntaxError("TypeError: Must provide Source. Received: " \o query.tag)
    ELSE CASE query.s = Q_OK -> Document(<<Op("query", "helloWho", "test")>>, TRUE)
           [] query.s = Q_MUT -> Document(<<Op("mutation", "", "writeTest")>>, TRUE)
           [] query.s = Q_SUB -> Document(<<Op("subscription", "", "onTest")>>, TRUE)
           [] query.s = Q_INVALID -> Document(<<Op("query", "", "nope")>>, FALSE)
           [] query.s = Q_MUT_INVALID -> Document(<<Op("mutation", "", "nope")>>, FALSE)
           [] query.s = Q_MULTI ->
                Document(<<Op("query", "A", "test"), Op("mutation", "B", "writeTest"),
                           Op("subscription", "S", "onTest")>>, TRUE)
           [] query.s = "" -> SyntaxError("Syntax Error: Unexpected <EOF>.")
           [] OTHER -> SyntaxError("Syntax Error: Unexpected Name.")

NoOperation == Op("None", "", "")

RECURSIVE OperationLoop(_, _, _, _)
\* The loop of graphql.get_operation_ast over document.definitions[i..],
\* `operation` being the one remembered so far.
OperationLoop(defs, i, operation_name, operation) ==
    IF i > Len(defs) THEN operation
    ELSE IF operation_name = PyNone
         THEN IF operation # NoOperation THEN NoOperation
              ELSE OperationLoop(defs, i + 1, operation_name, defs[i])
         ELSE IF defs[i].name # "" /\ PyStr(defs[i].name) = operation_name
              THEN defs[i]
              ELSE OperationLoop(defs, i + 1, operation_name, operation)

GetOperationAst(document, operation_name) ==
    OperationLoop(document.definitions, 1, operation_name, NoOperation)

Validate(document) ==
    IF document.valid THEN <<>> ELSE <<"Cannot query field 'nope'.">>

ExecutionResult(data, errors) == [tag |-> "ExecutionResult", data |-> data, errors |-> errors]

NoneResult == [tag |-> "None", data |-> PyNone, errors |-> <<>>]

\* What a resolver of the model's schema answers.
Resolve(field, variables) ==
    CASE field = "test" ->
           PyDict({<<"test", "Hello " \o (IF PyHas(variables, "who")
                                          THEN PyLookup(variables, "who") ELSE "World")>>})
      [] field = "writeTest" -> PyDict({<<"writeTest", "Hello World">>})
      [] OTHER -> PyDict({<<field, "null">>})

\* graphql.execute: the operation is chosen by name, or is the only one.
Execute(document, variables, operation_name) ==
    LET defs == document.definitions
        named == {i \in 1..Len(defs) : PyStr(defs[i].name) = operation_name}
    IN IF operation_name = PyNone
       THEN IF Len(defs) # 1
            THEN ExecutionResult(PyNone,
                   <<"Must provide operation name if query contains multiple operations.">>)
            ELSE ExecutionResult(Resolve(defs[1].field, variables), <<>>)
       ELSE IF named = {}
            THEN ExecutionResult(PyNone, <<"Unknown operation named '" \o operation_name.s \o "'.">>)
            ELSE ExecutionResult(Resolve(defs[CHOOSE i \in named : TRUE].field, variables), <<>>)

\* json.loads on the texts of the model; ok = FALSE when it raises.
JsonLoads(text) ==
    CASE text = V_YOU -> [ok |-> TRUE, value |-> PyDict({<<"who", "You">>})]
      [] text = V_EMPTY -> [ok |-> TRUE, value |-> PyDict({})]
      [] OTHER -> [ok |-> FALSE, value |-> PyNone]


(***************************************************************************)
(* The functions of graphql_server                                         *)
(***************************************************************************)
GraphQLParams(query, variables, operation_name) ==
    [query |-> query, variables |-> variables, operation_name |-> operation_name]

\* A request body item, or the query-string data: what .get answers for the
\* three keys the code reads.
Dict(query, variables, operationName) ==
    [query |-> query, variables |-> variables, operationName |-> operationName]

EmptyDict == Dict(PyNone, PyNone, PyNone)

Returned(value) == [raised |-> FALSE, error |-> NoError, value |-> value]

Raised(error, value) == [raised |-> TRUE, error |-> error, value |-> value]

load_json_variables(variables) ==
    IF Truthy(variables) /\ variables.tag = "str"
    THEN IF JsonLoads(variables.s).ok
         THEN Returned(JsonLoads(variables.s).value)
         ELSE Raised(HttpQueryError(400, "Variables are invalid JSON.", NoHeaders), PyNone)
    ELSE Returned(variables)

get_graphql_params(entry, extra) ==
    LET query == PyOr(entry.query, extra.query)
        variables == PyOr(entry.variables, extra.variables)
        operation_name == PyOr(entry.operationName, extra.operationName)
        loaded == load_json_variables(variables)
    IN IF loaded.raised
       THEN Raised(loaded.error, GraphQLParams(PyNone, PyNone, PyNone))
       ELSE Returned(GraphQLParams(query, loaded.value, operation_name))

\* One call of execute_graphql_request: what it returns or raises, and the
\* engine functions it called, in order.
Outcome(raised, error, result, calls) ==
    [raised |-> raised, error |-> error, result |-> result, calls |-> calls]

\* Lines 178-209: parse, the GET restriction, validation and execution.
ExecuteDocument(params, allow_only_query) ==
    LET document == Parse(params.query)
        operation_ast == GetOperationAst(document, params.operation_name)
        validation_errors == Validate(document)
        before == IF allow_only_query
                  THEN <<"parse", "get_operation_ast", "validate">>
                  ELSE <<"parse", "validate">>
    IN IF ~document.ok
       THEN Outcome(FALSE, NoError, ExecutionResult(PyNone, <<document.error>>), <<"parse">>)
       ELSE IF /\ allow_only_query
               /\ operation_ast # NoOperation
               /\ operation_ast.operation # "query"
       THEN Outcome(TRUE,
                    HttpQueryError(405,
                       "Can only perform a " \o operation_ast.operation
                          \o " operation from a POST request.",
                       "Allow: POST"),
                    NoneResult, <<"parse", "get_operation_ast">>)
       ELSE IF validation_errors # <<>>
       THEN Outcome(FALSE, NoError, ExecutionResult(PyNone, validation_errors), before)
       ELSE Outcome(FALSE, NoError,
                    Execute(document, params.variables, params.operation_name),
                    Append(before, "execute"))

\* execute_graphql_request without its `if not params.query` guard.
execute_graphql_request_unguarded(params, allow_only_query) ==
    ExecuteDocument(params, allow_only_query)

execute_graphql_request(params, allow_only_query) ==
    IF ~Truthy(params.query)
    THEN Outcome(TRUE, HttpQueryError(400, "Must provide query string.", NoHeaders),
                 NoneResult, <<>>)
    ELSE ExecuteDocument(params, allow_only_query)

\* catch_exc with the catch flag ignored: nothing is contained.
CatchExcNever(catch) == "SkipException"

\* catch_exc with the catch flag ignored: everything is contained.
CatchExcAlways(catch) == "HttpQueryError"

\* The exception class run_http_query hands to get_response.
CatchExc(catch) == IF catch THEN "HttpQueryError" ELSE "SkipException"

get_response(params, catch_exc, allow_only_query) ==
    LET r == execute_graphql_request(params, allow_only_query)
    IN IF r.raised /\ r.error.type = catch_exc
       THEN Outcome(FALSE, NoError, NoneResult, r.calls)
       ELSE r

\* allow_only_query never set: GET is not restricted.
AllowOnlyQueryNever(request_method) == FALSE

AllowOnlyQuery(request_method) == request_method = "get"

IsBatch(data) == data.kind = "list"

\* The entry checks with the empty-list check moved ahead of the batch check.
EntryErrorEmptyFirst(request_method, data, batch_enabled) ==
    IF request_method \notin {"get", "post"}
    THEN HttpQueryError(405, "GraphQL only supports GET and POST requests.",
                        "Allow: GET, POST")
    ELSE IF ~IsBatch(data) /\ data.kind # "dict"
    THEN HttpQueryError(400, "GraphQL params should be a dict. Received " \o data.kind \o ".",
                        NoHeaders)
    ELSE IF data.entries = <<>>
    THEN HttpQueryError(400, "Received an empty list in the batch request.", NoHeaders)
    ELSE IF IsBatch(data) /\ ~batch_enabled
    THEN HttpQueryError(400, "Batch GraphQL requests are not enabled.", NoHeaders)
    ELSE NoError

\* The checks of run_http_query before any item is looked at.
EntryError(request_method, data, batch_enabled) ==
    IF request_method \notin {"get", "post"}
    THEN HttpQueryError(405, "GraphQL only supports GET and POST requests.",
                        "Allow: GET, POST")
    ELSE IF ~IsBatch(data) /\ data.kind # "dict"
    THEN HttpQueryError(400, "GraphQL params should be a dict. Received " \o data.kind \o ".",
                        NoHeaders)
    ELSE IF IsBatch(data) /\ ~batch_enabled
    THEN HttpQueryError(400, "Batch GraphQL requests are not enabled.", NoHeaders)
    ELSE IF data.entries = <<>>
    THEN HttpQueryError(400, "Received an empty list in the batch request.", NoHeaders)
    ELSE NoError

\* extra_data taken from query_data for batches too.
ExtraDataAlways(is_batch, query_data) ==
    IF query_data.tag = "None" THEN EmptyDict ELSE query_data.d

\* extra_data: the query-string data, consumed only by a non-batch request.
ExtraData(is_batch, query_data) ==
    IF ~is_batch
    THEN IF query_data.tag = "None" THEN EmptyDict ELSE query_data.d
    ELSE EmptyDict

(***************************************************************************)
(* encode_execution_results                                                *)
(***************************************************************************)
NoFormatError == "None"

format_error_default(e) == [formatter |-> "format_error_default", message |-> e]

\* Applying the formatter the caller passed.
CallFormatter(format_error, e) == [formatter |-> format_error, message |-> e]

Response(tag, data, errors) == [tag |-> tag, data |-> data, errors |-> errors]

NoneResponse == Response("None", PyNone, <<>>)

format_execution_result(execution_result, format_error) ==
    IF execution_result.tag # "None"
    THEN IF execution_result.errors # <<>>
         THEN IF format_error = NoFormatError
              THEN Returned([response |->
                               Response("errors", PyNone,
                                        [k \in 1..Len(execution_result.errors) |->
                                            format_error_default(execution_result.errors[k])]),
                             status_code |-> 200])
              ELSE \* format_errors was never assigned on this path
                   Raised(NameError("format_errors"),
                          [response |-> NoneResponse, status_code |-> 200])
         ELSE Returned([response |-> Response("data", execution_result.data, <<>>),
                        status_code |-> 200])
    ELSE Returned([response |-> NoneResponse, status_code |-> 200])

Max(S) == CHOOSE x \in S : \A y \in S : y <= x

NoBody == [array |-> FALSE, items |-> <<>>]

encode_execution_results(execution_results, format_error, is_batch) ==
    LET formatted == [i \in 1..Len(execution_results) |->
                         format_execution_result(execution_results[i], format_error)]
        failing == {i \in 1..Len(formatted) : formatted[i].raised}
        result == [i \in 1..Len(formatted) |-> formatted[i].value.response]
        status_codes == {formatted[i].value.status_code : i \in 1..Len(formatted)}
    IN IF failing # {}
       THEN Raised(formatted[CHOOSE i \in failing : \A j \in failing : i <= j].error,
                   [body |-> NoBody, status_code |-> 0])
       ELSE IF Len(formatted) = 0
       THEN Raised([type |-> "ValueError", status_code |-> 0,
                    message |-> "not enough values to unpack", headers |-> NoHeaders],
                   [body |-> NoBody, status_code |-> 0])
       ELSE Returned([body |-> IF is_batch
                               THEN [array |-> TRUE, items |-> result]
                               ELSE [array |-> FALSE, items |-> <<result[1]>>],
                      status_code |-> Max(status_codes)])

(***************************************************************************)
(* run_http_query as one function of its arguments: the parameters of the  *)
(* items in order, then the responses in order, stopping at the first      *)
(* exception that is not caught.                                           *)
(***************************************************************************)
RECURSIVE ParamsFrom(_, _, _, _)
\* all_params = [get_graphql_params(entry, extra_data) for entry in data]
ParamsFrom(entries, extra, i, acc) ==
    IF i > Len(entries) THEN Returned(acc)
    ELSE LET r == get_graphql_params(entries[i], extra)
         IN IF r.raised THEN Raised(r.error, acc)
            ELSE ParamsFrom(entries, extra, i + 1, Append(acc, r.value))

Tag(calls, i) == [k \in 1..Len(calls) |-> [fn |-> calls[k], item |-> i]]

RECURSIVE ResponsesFrom(_, _, _, _, _, _)
\* responses = [get_response(schema, params, catch_exc, allow_only_query) ...]
ResponsesFrom(params, catch_exc, allow_only_query, i, acc, calls) ==
    IF i > Len(params) THEN [raised |-> FALSE, error |-> NoError, value |-> acc, calls |-> calls]
    ELSE LET r == get_response(params[i], catch_exc, allow_only_query)
         IN IF r.raised
            THEN [raised |-> TRUE, error |-> r.error, value |-> acc,
                  calls |-> calls \o Tag(r.calls, i)]
            ELSE ResponsesFrom(params, catch_exc, allow_only_query, i + 1,
                               Append(acc, r.result), calls \o Tag(r.calls, i))

run_http_query(method, input, qdata, enabled, contain) ==
    LET entry_error == EntryError(method, input, enabled)
        extra == ExtraData(IsBatch(input), qdata)
        ps == ParamsFrom(input.entries, extra, 1, <<>>)
        rs == ResponsesFrom(ps.value, CatchExc(contain), AllowOnlyQuery(method), 1, <<>>, <<>>)
    IN IF entry_error # NoError
       THEN [raised |-> TRUE, error |-> entry_error, responses |-> <<>>, all_params |-> <<>>]
       ELSE IF ps.raised
       THEN [raised |-> TRUE, error |-> ps.error, responses |-> <<>>, all_params |-> ps.value]
       ELSE [raised |-> rs.raised, error |-> rs.error, responses |-> rs.value,
             all_params |-> ps.value]

(***************************************************************************)
(* Inputs                                                                  *)
(***************************************************************************)
Queries == {PyNone, PyStr(""), PyStr(Q_OK), PyStr(Q_BAD), PyStr(Q_MUT), PyStr(Q_SUB),
            PyStr(Q_INVALID), PyStr(Q_MUT_INVALID), PyStr(Q_MULTI)}

VariablesValues == {PyNone, PyStr(V_YOU), PyStr(V_BROKEN), PyDict({<<"who", "Me">>}), PyDict({})}

OperationNames == {PyNone, PyStr("A"), PyStr("B"), PyStr("S")}

\* Bodies of a single (non-batch) request: every combination of the three keys.
SingleEntries == {Dict(q, v, o) : q \in Queries, v \in VariablesValues, o \in OperationNames}

\* Items of a batch.
BatchEntries == {EmptyDict,
                 Dict(PyStr(Q_OK), PyNone, PyNone),
                 Dict(PyStr(Q_OK), PyStr(V_BROKEN), PyNone),
                 Dict(PyStr(Q_BAD), PyNone, PyNone),
                 Dict(PyStr(Q_MUT), PyNone, PyNone),
                 Dict(PyStr(Q_INVALID), PyStr(V_YOU), PyNone)}

Datas == {[kind |-> "dict", entries |-> <<e>>] : e \in SingleEntries}
         \cup {[kind |-> "str", entries |-> <<>>]}
         \cup {[kind |-> "list", entries |-> es] :
                 es \in UNION {[1..n -> BatchEntries] : n \in 0..MaxBatch}}

NoQueryData == [tag |-> "None", d |-> EmptyDict]

QueryData(d) == [tag |-> "dict", d |-> d]

QueryDatas == {NoQueryData,
               QueryData(Dict(PyStr(Q_OK), PyStr(V_YOU), PyStr("helloWho"))),
               QueryData(Dict(PyStr(Q_MULTI), PyNone, PyStr("B"))),
               QueryData(Dict(PyNone, PyStr(V_BROKEN), PyNone))}

Methods == {"get", "post", "put"}

FormatErrors == {NoFormatError, "format_error"}

(***************************************************************************)
(* State                                                                   *)
(***************************************************************************)
VARIABLES
    request_method, data, query_data, batch_enabled, catch,  \* arguments
    pc,             \* "start", "params", "responses", "returned", "raised",
                    \* "encoded", "encode_raised"
    extra_data,     \* local of run_http_query
    all_params,     \* list being built at line 83
    responses,      \* list being built at lines 85-88
    error,          \* the exception that left the call, or NoError
    engine_calls,   \* calls made to the engine: <<[fn, item]>>
    format_error,   \* argument of encode_execution_results
    body,           \* what encode_execution_results hands to encode
    status_code

vars == <<request_method, data, query_data, batch_enabled, catch, pc, extra_data,
          all_params, responses, error, engine_calls, format_error, body, status_code>>

args == <<request_method, data, query_data, batch_enabled, catch>>

Init ==
    /\ request_method \in Methods
    /\ data \in Datas
    /\ query_data \in QueryDatas
    /\ batch_enabled \in BOOLEAN
    /\ catch \in BOOLEAN
    /\ pc = "start"
    /\ extra_data = EmptyDict
    /\ all_params = <<>>
    /\ responses = <<>>
    /\ error = NoError
    /\ engine_calls = <<>>
    /\ format_error = NoFormatError
    /\ body = NoBody
    /\ status_code = 0

\* Lines 51-81: the method, shape and batch checks, then extra_data.
Enter ==
    /\ pc = "start"
    /\ LET e == EntryError(request_method, data, batch_enabled)
       IN IF e # NoError
          THEN /\ pc' = "raised"
               /\ error' = e
               /\ UNCHANGED extra_data
          ELSE /\ pc' = "params"
               /\ extra_data' = ExtraData(IsBatch(data), query_data)
               /\ UNCHANGED error
    /\ UNCHANGED <<args, all_params, responses, engine_calls, format_error, body, status_code>>

\* Line 83: one turn of the comprehension over data.
ExtractParams ==
    /\ pc = "params"
    /\ LET i == Len(all_params) + 1
           r == get_graphql_params(data.entries[i], extra_data)
       IN IF r.raised
          THEN /\ pc' = "raised"
               /\ error' = r.error
               /\ UNCHANGED all_params
          ELSE /\ all_params' = Append(all_params, r.value)
               /\ pc' = IF i = Len(data.entries) THEN "responses" ELSE "params"
               /\ UNCHANGED error
    /\ UNCHANGED <<args, extra_data, responses, engine_calls, format_error, body, status_code>>

\* Lines 85-90: one turn of the comprehension over all_params; the return
\* follows the last turn.
Respond ==
    /\ pc = "responses"
    /\ LET i == Len(responses) + 1
           r == get_response(all_params[i], CatchExc(catch), AllowOnlyQuery(request_method))
       IN /\ engine_calls' = engine_calls \o Tag(r.calls, i)
          /\ IF r.raised
             THEN /\ pc' = "raised"
                  /\ error' = r.error
                  /\ UNCHANGED responses
             ELSE /\ responses' = Append(responses, r.result)
                  /\ pc' = IF i = Len(all_params) THEN "returned" ELSE "responses"
                  /\ UNCHANGED error
    /\ UNCHANGED <<args, extra_data, all_params, format_error, body, status_code>>

\* Lines 93-109: the caller encodes the responses it was returned.
Encode ==
    /\ pc = "returned"
    /\ \E fe \in FormatErrors :
         LET r == encode_execution_results(responses, fe, IsBatch(data))
         IN /\ format_error' = fe
            /\ IF r.raised
               THEN /\ pc' = "encode_raised"
                    /\ error' = r.error
                    /\ UNCHANGED <<body, status_code>>
               ELSE /\ pc' = "encoded"
                    /\ body' = r.value.body
                    /\ status_code' = r.value.status_code
                    /\ UNCHANGED error
    /\ UNCHANGED <<args, extra_data, all_params, responses, engine_calls>>

Next == Enter \/ ExtractParams \/ Respond \/ Encode

Spec == Init /\ [][Next]_vars

TypeOK ==
    /\ pc \in {"start", "params", "responses", "returned", "raised", "encoded", "encode_raised"}
    /\ Len(all_params) <= Len(data.entries)
    /\ Len(responses) <= Len(all_params)

(***************************************************************************)
(* Vocabulary of the properties                                            *)
(***************************************************************************)
N == Len(data.entries)

Items == 1..N

SupportedMethod == request_method \in {"get", "post"}

\* run_http_query has returned (responses, all_params) to its caller.
HasReturned == pc \in {"returned", "encoded", "encode_raised"}

\* encode_execution_results has ended, one way or the other.
EncodeEnded == pc \in {"encoded", "encode_raised"}

\* The exception left run_http_query out of the execution of item i.
RaisedExecuting(i) ==
    /\ pc = "raised"
    /\ N > 0
    /\ Len(all_params) = N
    /\ Len(responses) + 1 = i

\* Item i has been through get_response.
Handled(i) == i <= Len(responses) \/ RaisedExecuting(i)

Called(fn, i) == \E k \in 1..Len(engine_calls) : engine_calls[k] = [fn |-> fn, item |-> i]

EngineCalled(i) == \E k \in 1..Len(engine_calls) : engine_calls[k].item = i

\* The fallback dict the caller passed (query_data or {}).
Fallback == IF query_data.tag = "None" THEN EmptyDict ELSE query_data.d

\* The query of item i after normalisation: the item's, else the fallback's,
\* and no fallback for a batch.
NormalizedQuery(i) ==
    IF Truthy(data.entries[i].query) THEN data.entries[i].query
    ELSE IF IsBatch(data) THEN PyNone ELSE Fallback.query

IsExecuted(r) == r.tag = "ExecutionResult"

\* The operation get_operation_ast selects for parameters p is a mutation or
\* a subscription of a document that parses.
SelectsNonQuery(p) ==
    /\ Truthy(p.query)
    /\ Parse(p.query).ok
    /\ GetOperationAst(Parse(p.query), p.operation_name).operation \in {"mutation", "subscription"}

\* Item i carries a str for variables that json.loads rejects.
BrokenVariables(i) ==
    LET v == data.entries[i].variables
    IN Truthy(v) /\ v.tag = "str" /\ ~JsonLoads(v.s).ok

(***************************************************************************)
(* C1. For every batch input of length N >= 1 with batch_enabled for which *)
(* run_http_query returns, the outcomes and the params both have length N  *)
(* and the i-th of each is derived from the i-th item; and                 *)
(* encode_execution_results with is_batch = true then yields a body array  *)
(* of length N whose i-th element is the encoding of the i-th outcome,     *)
(* null for a suppressed one.                                              *)
(***************************************************************************)
C1_BatchPositional ==
    (IsBatch(data) /\ HasReturned) =>
        /\ N >= 1 /\ batch_enabled
        /\ Len(all_params) = N
        /\ Len(responses) = N
        /\ \A i \in Items :
             /\ all_params[i] = get_graphql_params(data.entries[i], EmptyDict).value
             /\ responses[i] =
                  get_response(all_params[i], CatchExc(catch),
                               AllowOnlyQuery(request_method)).result
        /\ EncodeEnded =>
             /\ pc = "encoded"
             /\ body.array
             /\ Len(body.items) = N
             /\ \A i \in Items :
                  /\ responses[i] = NoneResult => body.items[i] = NoneResponse
                  /\ IsExecuted(responses[i]) =>
                       body.items[i].tag = IF responses[i].errors # <<>> THEN "errors" ELSE "data"

(***************************************************************************)
(* C2 as claimed. With batch_enabled and catch, a structural error of one  *)
(* item of a batch (missing query text, operation disallowed for the verb, *)
(* or unparseable variables JSON) is caught for that item only and turned  *)
(* into a suppressed outcome; run_http_query does not raise and every      *)
(* sibling is still executed and gets its own outcome.                     *)
(***************************************************************************)
C2_EveryStructuralErrorContained ==
    (IsBatch(data) /\ batch_enabled /\ catch /\ SupportedMethod /\ N >= 1) =>
        /\ pc # "raised"
        /\ HasReturned =>
             /\ Len(responses) = N
             /\ \A i \in Items :
                  LET structural == \/ ~Truthy(data.entries[i].query)
                                    \/ request_method = "get" /\ SelectsNonQuery(all_params[i])
                                    \/ BrokenVariables(i)
                  IN IF structural THEN responses[i] = NoneResult
                     ELSE IsExecuted(responses[i]) /\ Called("parse", i)

(***************************************************************************)
(* C2 as amended. With batch_enabled and catch, a structural error raised  *)
(* by the execution of one item (missing query text, operation disallowed  *)
(* for the verb) is caught for that item only and turned into a suppressed *)
(* outcome, and every sibling is still executed and gets its own outcome;  *)
(* run_http_query then raises only for unparseable variables JSON, which   *)
(* is raised while the parameters are extracted, before any item is        *)
(* executed, and is not contained.                                         *)
(***************************************************************************)
C2_ExecutionErrorsContained ==
    (IsBatch(data) /\ batch_enabled /\ catch /\ SupportedMethod /\ N >= 1) =>
        /\ pc = "raised" =>
             /\ error = HttpQueryError(400, "Variables are invalid JSON.", NoHeaders)
             /\ Len(all_params) < N
             /\ BrokenVariables(Len(all_params) + 1)
             /\ responses = <<>>
             /\ engine_calls = <<>>
        /\ (\A i \in Items : ~BrokenVariables(i)) => (pc \notin {"start", "params", "responses"} => HasReturned)
        /\ HasReturned =>
             /\ Len(responses) = N
             /\ \A i \in Items :
                  LET structural == \/ ~Truthy(all_params[i].query)
                                    \/ request_method = "get" /\ SelectsNonQuery(all_params[i])
                  IN /\ structural => responses[i] = NoneResult
                     /\ ~structural => IsExecuted(responses[i]) /\ Called("parse", i)

\* A batch of two returned with its first item suppressed and its second executed.
C2_Witness ==
    /\ IsBatch(data) /\ batch_enabled /\ catch /\ N >= 2
    /\ pc = "returned"
    /\ responses[1] = NoneResult
    /\ IsExecuted(responses[2])
    /\ Called("execute", 2)

(***************************************************************************)
(* C3. An item whose normalized query (the item's value, else the          *)
(* fallback's) is empty or absent yields, under every method and every     *)
(* setting of batch_enabled and catch, the structural error                *)
(* HttpQueryError 400 "Must provide query string." whenever it is          *)
(* executed, and never an Executed outcome: the engine is not called for   *)
(* it.                                                                     *)
(***************************************************************************)
C3_EmptyQueryIsStructural ==
    \A i \in Items :
        ~Truthy(NormalizedQuery(i)) =>
            /\ ~EngineCalled(i)
            /\ i <= Len(responses) => (catch /\ responses[i] = NoneResult)
            /\ RaisedExecuting(i) =>
                 (~catch /\ error = HttpQueryError(400, "Must provide query string.", NoHeaders))
            /\ HasReturned => (catch /\ i <= Len(responses))

\* A single request with query "" that went through execution and raised.
C3_Witness ==
    /\ data.kind = "dict"
    /\ data.entries[1].query = PyStr("")
    /\ ~Truthy(Fallback.query)
    /\ RaisedExecuting(1)
    /\ error.message = "Must provide query string."

(***************************************************************************)
(* C4. A document that parses and whose operation selected by              *)
(* operationName is a mutation or a subscription: with method "get" it is  *)
(* rejected with HttpQueryError 405 naming the operation kind, header      *)
(* Allow: POST, and execute is never called for it; with method "post" it  *)
(* is not rejected and goes on to validation and execution.                *)
(***************************************************************************)
C4_NonQueryOnlyViaPost ==
    \A i \in 1..Len(all_params) :
        (SelectsNonQuery(all_params[i]) /\ Handled(i)) =>
            LET document == Parse(all_params[i].query)
                kind == GetOperationAst(document, all_params[i].operation_name).operation
            IN /\ request_method = "get" =>
                    /\ ~Called("execute", i)
                    /\ ~Called("validate", i)
                    /\ i <= Len(responses) => (catch /\ responses[i] = NoneResult)
                    /\ RaisedExecuting(i) =>
                         /\ ~catch
                         /\ error.type = "HttpQueryError"
                         /\ error.status_code = 405
                         /\ error.headers = "Allow: POST"
                         /\ kind = "mutation" =>
                              error.message = "Can only perform a mutation operation from a POST request."
                         /\ kind = "subscription" =>
                              error.message = "Can only perform a subscription operation from a POST request."
               /\ request_method = "post" =>
                    /\ ~RaisedExecuting(i)
                    /\ IsExecuted(responses[i])
                    /\ Called("validate", i)
                    /\ document.valid =>
                         /\ Called("execute", i)
                         /\ responses[i] = Execute(document, all_params[i].variables,
                                                   all_params[i].operation_name)

\* A mutation sent with GET has been rejected.
C4_Witness ==
    /\ request_method = "get"
    /\ RaisedExecuting(1)
    /\ SelectsNonQuery(all_params[1])
    /\ error.status_code = 405

(***************************************************************************)
(* C5. A parse failure or a validation failure of an item's query never    *)
(* raises a structural error and never aborts the pipeline: the item gets  *)
(* an Executed outcome with data = null and a non-empty errors list, which *)
(* is encoded in-band at status 200.  Stated here for the items that get   *)
(* as far as the failure: the query fails parsing, or it parses, is not    *)
(* rejected by the GET restriction and fails validation.                   *)
(***************************************************************************)
DomainFailure(p) ==
    /\ Truthy(p.query)
    /\ \/ ~Parse(p.query).ok
       \/ /\ Validate(Parse(p.query)) # <<>>
          /\ ~(request_method = "get" /\ SelectsNonQuery(p))

C5_DomainErrorsInBand ==
    \A i \in 1..Len(all_params) :
        DomainFailure(all_params[i]) =>
            /\ ~RaisedExecuting(i)
            /\ i <= Len(responses) =>
                 /\ IsExecuted(responses[i])
                 /\ responses[i].data = PyNone
                 /\ responses[i].errors # <<>>
            /\ EncodeEnded =>
                 /\ pc = "encoded"
                 /\ status_code = 200
                 /\ body.items[i].tag = "errors"
                 /\ Len(body.items[i].errors) = Len(responses[i].errors)

(***************************************************************************)
(* C6. For every non-batch input, handling either fails with a structural  *)
(* error carrying a status code, or produces a body that is exactly one    *)
(* JSON object {data: ...} or {errors: [...]}, never an array.  Stated     *)
(* here for containment disabled (catch = false).                          *)
(***************************************************************************)
C6_SingleObjectOrStructuralError ==
    (~IsBatch(data) /\ ~catch /\ pc \in {"raised", "encoded", "encode_raised"}) =>
        \/ /\ pc = "raised"
           /\ error.type = "HttpQueryError"
           /\ error.status_code \in {400, 405}
        \/ /\ pc = "encoded"
           /\ ~body.array
           /\ Len(body.items) = 1
           /\ body.items[1].tag \in {"data", "errors"}

(***************************************************************************)
(* C7. For every Executed outcome passed to the encoder together with a    *)
(* caller-supplied format_error: if its errors list is non-empty the body  *)
(* is {errors: [format_error(e) for each e, in order]}, otherwise the body *)
(* is {data: data}; in both cases encoding completes with status 200.      *)
(***************************************************************************)
C7_CallerFormatterApplied ==
    (EncodeEnded /\ format_error # NoFormatError) =>
        /\ pc = "encoded"
        /\ status_code = 200
        /\ \A i \in 1..Len(responses) :
             IsExecuted(responses[i]) =>
                 body.items[i] =
                    IF responses[i].errors # <<>>
                    THEN Response("errors", PyNone,
                                  [k \in 1..Len(responses[i].errors) |->
                                      CallFormatter(format_error, responses[i].errors[k])])
                    ELSE Response("data", responses[i].data, <<>>)

(***************************************************************************)
(* C8. With batch_enabled = false and a list input, run_http_query called  *)
(* with a supported method always fails with the single structural error   *)
(* HttpQueryError 400 "Batch GraphQL requests are not enabled.", whatever  *)
(* the list holds (nothing, items without a query, items with invalid      *)
(* variables JSON); no parameters are extracted and no item is executed.   *)
(***************************************************************************)
C8_BatchDisabled ==
    (IsBatch(data) /\ ~batch_enabled /\ SupportedMethod /\ pc # "start") =>
        /\ pc = "raised"
        /\ error = HttpQueryError(400, "Batch GraphQL requests are not enabled.", NoHeaders)
        /\ all_params = <<>>
        /\ responses = <<>>
        /\ engine_calls = <<>>

\* The empty list has been refused because batching is off.
C8_Witness ==
    /\ IsBatch(data) /\ ~batch_enabled /\ SupportedMethod
    /\ data.entries = <<>>
    /\ pc = "raised"

(***************************************************************************)
(* C9. The fallback values (query_data) are used only for non-batch        *)
(* requests: for a batch, the run ends the same way, with the same params  *)
(* and the same outcomes, whatever query_data is; for a non-batch input    *)
(* each of query, variables (before decoding) and operationName is the     *)
(* item's value when present and truthy and the fallback's otherwise.      *)
(***************************************************************************)
C9_FallbackOnlyForSingle ==
    /\ (IsBatch(data) /\ pc \in {"returned", "raised"}) =>
          \A qd \in QueryDatas :
              run_http_query(request_method, data, qd, batch_enabled, catch)
                 = [raised |-> pc = "raised", error |-> error, responses |-> responses,
                    all_params |-> all_params]
    /\ (~IsBatch(data) /\ Len(all_params) = 1) =>
          LET item == data.entries[1]
              chosen == IF Truthy(item.variables) THEN item.variables ELSE Fallback.variables
          IN /\ all_params[1].query =
                   IF Truthy(item.query) THEN item.query ELSE Fallback.query
             /\ all_params[1].operation_name =
                   IF Truthy(item.operationName) THEN item.operationName
                   ELSE Fallback.operationName
             /\ all_params[1].variables =
                   IF chosen.tag = "str" /\ chosen.s # "" THEN JsonLoads(chosen.s).value
                   ELSE chosen

\* A batch whose first item has no query of its own returned, while the
\* query string carried a query.
C9_Witness ==
    /\ IsBatch(data)
    /\ pc = "returned"
    /\ Truthy(Fallback.query)
    /\ ~Truthy(data.entries[1].query)
    /\ responses[1] = NoneResult

(***************************************************************************)
(* C10. With catch = false the items of a batch are executed strictly in   *)
(* input order, and when the execution of item k raises a structural       *)
(* error that error leaves run_http_query at once: no item after k is      *)
(* ever handed to the engine and no outcomes list is returned.             *)
(***************************************************************************)
C10_FirstErrorAborts ==
    ~catch =>
        /\ \A a, b \in 1..Len(engine_calls) :
              a < b => engine_calls[a].item <= engine_calls[b].item
        /\ \A k \in 1..Len(all_params) :
              (/\ Len(all_params) = N
               /\ execute_graphql_request(all_params[k], AllowOnlyQuery(request_method)).raised) =>
                  /\ Len(responses) < k
                  /\ ~HasReturned
                  /\ \A c \in 1..Len(engine_calls) : engine_calls[c].item <= k
                  /\ RaisedExecuting(k) =>
                        error = execute_graphql_request(all_params[k],
                                                        AllowOnlyQuery(request_method)).error

\* The first item of a batch raised and the second, which has a query, was
\* never handed to the engine.
C10_Witness ==
    /\ ~catch /\ IsBatch(data) /\ N >= 2
    /\ RaisedExecuting(1)
    /\ Truthy(all_params[2].query)
    /\ ~EngineCalled(2)

=============================================================================
